---- MODULE Spec2Model ----
(***************************************************************************)
(* A model of @bumble/store (build/bundle-esm.js): the state owner         *)
(* (initStore, getState, setState, onStateChange) as it is loaded in each  *)
(* extension process, with the timers its setState schedules.              *)
(*                                                                         *)
(* Every process loads its own instance of the module, so the module-level *)
(* variables of the source are functions of the process here.  JavaScript  *)
(* runs each call and each timer callback to completion; one action is one *)
(* such call or callback, with the promise reactions it triggers.          *)
(***************************************************************************)
EXTENDS Integers, Sequences, FiniteSets, TLC

\* Bounds of the model.
MaxCalls == 2        \* accepted setState calls
MaxListeners == 2    \* length of the listeners array
MaxConnects == 2     \* connectToStore calls that reach getBackgroundPage

\* The processes of the extension: the background page, a privileged
\* extension page (popup / options) and a web page running a content script.
Procs == {"bg", "popup", "page"}

\* The processes whose scripts call the store API of their module instance
StoreUsers == {"bg", "popup"}

\* Inputs: the keys of the state, the strings passed to getState (the empty
\* string among them), listener callbacks.  The callback "boom" throws when
\* it is invoked.
Keys == {"a", "b"}
KeyStrings == Keys \cup {""}
Listeners == {"l1", "boom"}

GeneratedBackgroundPath == "/_generated_background_page.html"
\* chrome.runtime.getManifest().background.page of the modelled extension
ManifestBackgroundPage == "/background.html"

\* window.location of each process
location ==
  [q \in Procs |->
     IF q = "bg"
     THEN [protocol |-> "chrome-extension:", pathname |-> ManifestBackgroundPage]
     ELSE IF q = "popup"
     THEN [protocol |-> "chrome-extension:", pathname |-> "/popup.html"]
     ELSE [protocol |-> "https:", pathname |-> "/index.html"]]

VARIABLES
  storeReady,         \* let storeReady
  state,              \* const state
  listeners,          \* let listeners
  shouldUpdateState,  \* let shouldUpdateState
  composeNextState,   \* let composeNextState: the updates composed into the closure
  storePromise,       \* window.bumbleStore: "pending" or "resolved"
  timers,             \* callbacks pending behind timeout(0), oldest first
  calls,              \* history: the accepted setState calls, each with the
                      \*   window it fell in (win: one more than the commit
                      \*   callbacks run before it), the state it was made in
                      \*   (pre) and its promise (settled, value)
  commitLog,          \* history: the runs of the commit callback
  lastResult,         \* outcome of the call or callback that ran last
  backgroundStore,    \* const backgroundStore: "placeholder" until
                      \*   Object.assign(backgroundStore, store), then "connected"
  connects,           \* the promises of getBackgroundPage() made by
                      \*   connectToStore, each with its process and stage
  lastRead            \* history: the last whole-state read of the owner's state

\* the variables of the connector
connectVars == <<backgroundStore, connects>>

vars == <<storeReady, state, listeners, shouldUpdateState,
          composeNextState, storePromise, timers, calls, commitLog, lastResult,
          backgroundStore, connects, lastRead>>

----------------------------------------------------------------------------
\* Objects as finite maps

EmptyMap == [k \in {} |-> 0]

\* { ...a, ...b } and Object.assign(a, b): the keys of b overwrite
Spread(a, b) ==
  [k \in DOMAIN a \cup DOMAIN b |-> IF k \in DOMAIN b THEN b[k] ELSE a[k]]

\* Results and errors of a call
NoError == [kind |-> "none", name |-> ""]
\* `${name} is not initialized. Call this function after initStore() has completed.`
NotInitializedError(name) == [kind |-> "NotInitialized", name |-> name]
\* 'Cannot initialize the store twice.'
AlreadyInitializedError == [kind |-> "AlreadyInitialized", name |-> "initStore"]
\* 'Must initialize the store in the background page.'
WrongContextError == [kind |-> "WrongContext", name |-> "initStore"]
\* `${name} is not initialized. Call this function inside connectToStore().then()`
NotConnectedError(name) == [kind |-> "NotConnected", name |-> name]
\* what getBackgroundPage rejects with: chrome.runtime.lastError.message, or
\* the exception chrome.runtime.getBackgroundPage raised
BridgeError(name) == [kind |-> "Bridge", name |-> name]
\* an exception raised by a callback of the caller (update function, listener)
CallbackError(name) == [kind |-> "Callback", name |-> name]

Undefined == [kind |-> "undefined", map |-> EmptyMap, num |-> 0]
NumberValue(n) == [kind |-> "number", map |-> EmptyMap, num |-> n]
ObjectValue(m) == [kind |-> "object", map |-> m, num |-> 0]
BooleanValue(b) == [kind |-> IF b THEN "true" ELSE "false", map |-> EmptyMap, num |-> 0]
PromiseValue == [kind |-> "promise", map |-> EmptyMap, num |-> 0]
StoreValue == [kind |-> "store", map |-> EmptyMap, num |-> 0]

\* `proc` is the process whose module instance ran the call, `via` the
\* process whose script made it (another one when the call went through the
\* connected backgroundStore).  `registered` and `invoked` report a round of
\* listeners.forEach: the array it ran over and the calls it made
Returned(op, p, v) ==
  [op |-> op, proc |-> p, via |-> p, threw |-> FALSE, error |-> NoError,
   ret |-> v, registered |-> <<>>, invoked |-> <<>>]
Thrown(op, p, e) ==
  [op |-> op, proc |-> p, via |-> p, threw |-> TRUE, error |-> e,
   ret |-> Undefined, registered |-> <<>>, invoked |-> <<>>]
\* the same outcome, of a call made by a script of process h
Via(r, h) == [r EXCEPT !.via = h]
WithRound(r, ls, round) ==
  [r EXCEPT !.registered = ls, !.invoked = round.invoked]

----------------------------------------------------------------------------
\* Context classifier

isBackgroundPage(p) ==
  /\ location[p].protocol = "chrome-extension:"
  /\ \/ location[p].pathname = GeneratedBackgroundPath
     \/ location[p].pathname = ManifestBackgroundPage

isContentScript(p) == location[p].protocol # "chrome-extension:"

----------------------------------------------------------------------------
\* getState

\* selectors: none, a string key, a function of a copy of the state
NoSelector == [type |-> "none", key |-> ""]
KeySelector(k) == [type |-> "string", key |-> k]
\* the selector function s => Object.keys(s).length
CountSelector == [type |-> "function", key |-> ""]
Selectors == {NoSelector, CountSelector} \cup {KeySelector(k) : k \in KeyStrings}

\* typeof keyOrFn === 'string' && keyOrFn.length: the length of the key
KeyLength(k) == IF k = "" THEN 0 ELSE 1

\* What getState returns once the guard has passed
getStateValue(p, sel) ==
  IF sel.type = "string" /\ KeyLength(sel.key) # 0
  THEN IF sel.key \in DOMAIN state[p]
       THEN NumberValue(state[p][sel.key])
       ELSE Undefined
  ELSE IF sel.type = "function"
  THEN NumberValue(Cardinality(DOMAIN state[p]))
  ELSE ObjectValue(state[p])

getStateResult(p, sel) ==
  IF ~storeReady[p]
  THEN Thrown("getState", p, NotInitializedError("store.getState"))
  ELSE Returned("getState", p, getStateValue(p, sel))

\* The read history: the content of the last getState that returned a copy
\* of the whole state, the module instance it read and the number of commit
\* callbacks run before it; no read is remembered across a setState call.
\* `again` tells that such a read had been remembered when this one was made
NoRead == [valid |-> FALSE, proc |-> "bg", map |-> EmptyMap, commits |-> 0,
           again |-> FALSE]
ReadAfter(p, sel) ==
  IF storeReady[p] /\ getStateValue(p, sel).kind = "object"
  THEN [valid |-> TRUE, proc |-> p, map |-> state[p],
        commits |-> Len(commitLog), again |-> lastRead.valid]
  ELSE lastRead

\* getState called by a script of process h on the module instance of p
GetStateCall(h, p, sel) ==
  /\ lastResult' = Via(getStateResult(p, sel), h)
  /\ UNCHANGED <<storeReady, state, listeners, shouldUpdateState,
                 composeNextState, storePromise, timers, calls, commitLog,
                 connectVars>>

GetStateVia(h, p, sel) == GetStateCall(h, p, sel) /\ UNCHANGED lastRead

GetState(p, sel) == GetStateVia(p, p, sel)

\* getState, the read remembered in the read history
GetStateRecorded(p, sel) ==
  GetStateCall(p, p, sel) /\ lastRead' = ReadAfter(p, sel)

----------------------------------------------------------------------------
\* setState

\* The updates passed to setState: an object, or a function of the previous
\* state.  "incA" is s => ({a: (s.a || 0) + 1}); "throw" raises.
ObjectUpdates == {[k \in {"a"} |-> 1]}
FunctionUpdates == {"incA", "throw"}
Updates == {[fn |-> "none", obj |-> o] : o \in ObjectUpdates}
             \cup {[fn |-> f, obj |-> EmptyMap] : f \in FunctionUpdates}

Evaluated(v) == [threw |-> FALSE, val |-> v]
Raised(v) == [threw |-> TRUE, val |-> v]

\* newStateOrFn(prevState)
CallUpdateFn(f, prev) ==
  IF f = "incA"
  THEN Evaluated([k \in {"a"} |->
                   (IF "a" \in DOMAIN prev THEN prev["a"] ELSE 0) + 1])
  ELSE Raised(EmptyMap)

\* fn = prevState => ({ ...prevState, ...newStateOrFn(prevState) })
\* or   prevState => ({ ...prevState, ...newStateOrFn })
UpdateStep(u, prev) ==
  IF u.fn = "none"
  THEN Evaluated(Spread(prev, u.obj))
  ELSE LET r == CallUpdateFn(u.fn, prev)
       IN IF r.threw THEN Raised(prev) ELSE Evaluated(Spread(prev, r.val))

\* (mutant) the closure composed the other way round, setter(fn(nextState)):
\* the update of the latest call is applied first
RECURSIVE ApplyComposedReversed(_, _)
ApplyComposedReversed(chain, s) ==
  IF chain = <<>>
  THEN Evaluated(s)
  ELSE LET first == UpdateStep(chain[Len(chain)], s)
       IN IF first.threw THEN first
          ELSE ApplyComposedReversed(SubSeq(chain, 1, Len(chain) - 1), first.val)

\* composeNextState = nextState => fn(setter(nextState)): the closure built
\* from the updates in `chain`, applied to s
RECURSIVE ApplyComposed(_, _)
ApplyComposed(chain, s) ==
  IF chain = <<>>
  THEN Evaluated(s)
  ELSE LET inner == ApplyComposed(SubSeq(chain, 1, Len(chain) - 1), s)
       IN IF inner.threw THEN inner ELSE UpdateStep(chain[Len(chain)], inner.val)

CommitTimer(i) == [kind |-> "commit", call |-> i]
ResolveTimer(i) == [kind |-> "resolve", call |-> i]

\* (mutant) the update is merged into the state by the call itself, as well
\* as composed for the commit
SetStateSynchronous(h, p, u) ==
  LET i == Len(calls) + 1
      r == UpdateStep(u, state[p])
  IN /\ Len(calls) < MaxCalls
     /\ composeNextState' = [composeNextState EXCEPT ![p] = Append(@, u)]
     /\ state' = [state EXCEPT ![p] = IF r.threw THEN @ ELSE Spread(@, r.val)]
     /\ IF shouldUpdateState[p]
        THEN /\ timers' = [timers EXCEPT
                             ![p] = @ \o <<CommitTimer(i), ResolveTimer(i)>>]
             /\ shouldUpdateState' = [shouldUpdateState EXCEPT ![p] = FALSE]
        ELSE /\ timers' = [timers EXCEPT ![p] = Append(@, ResolveTimer(i))]
             /\ UNCHANGED shouldUpdateState
     /\ calls' = Append(calls, [proc |-> p, upd |-> u,
                                win |-> Len(commitLog) + 1,
                                pre |-> state[p],
                                settled |-> FALSE, value |-> EmptyMap])
     /\ lastResult' = Via(Returned("setState", p, PromiseValue), h)
     /\ lastRead' = NoRead
     /\ UNCHANGED <<storeReady, listeners, storePromise,
                    commitLog, connectVars>>

SetStateAcceptedVia(h, p, u) ==
  LET i == Len(calls) + 1
  IN /\ Len(calls) < MaxCalls
     /\ composeNextState' = [composeNextState EXCEPT ![p] = Append(@, u)]
     /\ IF shouldUpdateState[p]
        THEN /\ timers' = [timers EXCEPT
                             ![p] = @ \o <<CommitTimer(i), ResolveTimer(i)>>]
             /\ shouldUpdateState' = [shouldUpdateState EXCEPT ![p] = FALSE]
        ELSE /\ timers' = [timers EXCEPT ![p] = Append(@, ResolveTimer(i))]
             /\ UNCHANGED shouldUpdateState
     /\ calls' = Append(calls, [proc |-> p, upd |-> u,
                                win |-> Len(commitLog) + 1,
                                pre |-> state[p],
                                settled |-> FALSE, value |-> EmptyMap])
     /\ lastResult' = Via(Returned("setState", p, PromiseValue), h)
     /\ lastRead' = NoRead
     /\ UNCHANGED <<storeReady, state, listeners, storePromise,
                    commitLog, connectVars>>

SetStateAccepted(p, u) == SetStateAcceptedVia(p, p, u)

SetStateRefused(p) ==
  /\ lastResult' = Thrown("setState", p, NotInitializedError("store.setState"))
  /\ UNCHANGED <<storeReady, state, listeners, shouldUpdateState,
                 composeNextState, storePromise, timers, calls, commitLog,
                 connectVars, lastRead>>

\* (mutant) the readiness guard left out
SetStateUnguarded(p, u) == SetStateAccepted(p, u)

SetState(p, u) ==
  IF ~storeReady[p] THEN SetStateRefused(p) ELSE SetStateAccepted(p, u)

----------------------------------------------------------------------------
\* Listeners

ListenerThrows(l) == l = "boom"

\* listeners.forEach(fn => fn(getState())): the listeners invoked, in order,
\* up to and including the first one that throws
RECURSIVE InvokedOf(_)
InvokedOf(ls) ==
  IF ls = <<>> THEN <<>>
  ELSE IF ListenerThrows(Head(ls)) THEN <<Head(ls)>>
  ELSE <<Head(ls)>> \o InvokedOf(Tail(ls))

RoundThrows(ls) == \E i \in 1..Len(ls) : ListenerThrows(ls[i])

\* the round of a forEach over ls, each listener receiving a copy of s
RoundOf(ls, s) ==
  [invoked |-> [i \in 1..Len(InvokedOf(ls)) |->
                  [listener |-> InvokedOf(ls)[i], arg |-> s]],
   threw |-> RoundThrows(ls)]

\* listeners.filter(l => l !== listener)
RECURSIVE Without(_, _)
Without(ls, l) ==
  IF ls = <<>> THEN <<>>
  ELSE IF Head(ls) = l THEN Without(Tail(ls), l)
  ELSE <<Head(ls)>> \o Without(Tail(ls), l)

\* What a round can change in the module while it runs: the listeners array,
\* the composed update, the flag, the timers and the accepted calls. fits is
\* false when the round leaves the bounds of the model.
RoundEnv(ls, chain, flag, ts, cs) ==
  [listeners |-> ls, composeNextState |-> chain, shouldUpdateState |-> flag,
   timers |-> ts, calls |-> cs, fits |-> TRUE]

\* the update the listener "setter" passes to setState
ListenerUpdate == [fn |-> "none", obj |-> [k \in {"b"} |-> 1]]

\* (mutant) the flag is still false when the listeners run: the call sets
\* its resolve timer and schedules no commit
SetStateInRoundUnscheduled(env, p, u, s, n) ==
  LET i == Len(env.calls) + 1
  IN [listeners |-> env.listeners,
      composeNextState |-> Append(env.composeNextState, u),
      shouldUpdateState |-> FALSE,
      timers |-> Append(env.timers, ResolveTimer(i)),
      calls |-> Append(env.calls, [proc |-> p, upd |-> u, win |-> n + 1,
                                   pre |-> s, settled |-> FALSE,
                                   value |-> EmptyMap]),
      fits |-> env.fits /\ Len(env.calls) < MaxCalls]

\* setState(u) called by a listener of module p during a round, the state
\* being s and n commit callbacks having run
SetStateInRound(env, p, u, s, n) ==
  LET i == Len(env.calls) + 1
  IN [listeners |-> env.listeners,
      composeNextState |-> Append(env.composeNextState, u),
      shouldUpdateState |-> FALSE,
      timers |-> env.timers \o (IF env.shouldUpdateState
                                THEN <<CommitTimer(i), ResolveTimer(i)>>
                                ELSE <<ResolveTimer(i)>>),
      calls |-> Append(env.calls, [proc |-> p, upd |-> u, win |-> n + 1,
                                   pre |-> s, settled |-> FALSE,
                                   value |-> EmptyMap]),
      fits |-> env.fits /\ Len(env.calls) < MaxCalls]

\* The listeners of the model, called with state s: "adder" is
\* s => addListener(l1), "remover" is s => removeListener(l1), "setter" is
\* s => { if (!('b' in s)) setState({b: 1}) }; "l1" calls nothing and "boom"
\* throws.
CallListener(l, env, p, s, n) ==
  CASE l = "adder" ->
         [env EXCEPT !.listeners = Append(@, "l1"),
                     !.fits = @ /\ Len(env.listeners) < MaxListeners]
    [] l = "remover" -> [env EXCEPT !.listeners = Without(@, "l1")]
    [] l = "setter" /\ "b" \notin DOMAIN s ->
         SetStateInRound(env, p, ListenerUpdate, s, n)
    [] OTHER -> env

\* what the forEach over the array ls leaves behind: the listeners are called
\* in the order of ls, whatever they do to the listeners variable, and the
\* iteration ends at the first one that throws
RECURSIVE RoundEffects(_, _, _, _, _)
RoundEffects(ls, env, p, s, n) ==
  IF ls = <<>> THEN env
  ELSE IF ListenerThrows(Head(ls)) THEN env
  ELSE RoundEffects(Tail(ls), CallListener(Head(ls), env, p, s, n), p, s, n)

----------------------------------------------------------------------------
\* The callbacks behind timeout(0)

\* the promise of call i is resolved and its .then(getState) reaction runs
Settle(cs, i, s) ==
  IF cs[i].settled THEN cs
  ELSE [cs EXCEPT ![i] = [@ EXCEPT !.settled = TRUE, !.value = s]]

\* the keys the updates of a chain write
ChainKeys(chain) ==
  UNION {(IF chain[k].fn = "none" THEN DOMAIN chain[k].obj
          ELSE IF chain[k].fn = "incA" THEN {"a"} ELSE {}) : k \in 1..Len(chain)}

\* (mutant) the state replaced by the composed updates instead of merged:
\* the keys no update writes are dropped
CommitReplaces(p, i) ==
  LET r == ApplyComposed(composeNextState[p], state[p])
      post == [k \in ChainKeys(composeNextState[p]) |-> r.val[k]]
      round == RoundOf(listeners[p], post)
      after == RoundEffects(listeners[p],
                            RoundEnv(listeners[p], <<>>, TRUE,
                                     Tail(timers[p]), calls),
                            p, post, Len(commitLog) + 1)
  IN IF r.threw
     THEN /\ commitLog' = Append(commitLog,
                 [proc |-> p, applied |-> FALSE, post |-> state[p]])
          /\ lastResult' =
               [Thrown("commit", p, CallbackError("update"))
                  EXCEPT !.registered = listeners[p]]
          /\ timers' = [timers EXCEPT ![p] = Tail(@)]
          /\ UNCHANGED <<state, listeners, shouldUpdateState,
                         composeNextState, calls>>
     ELSE /\ after.fits
          /\ state' = [state EXCEPT ![p] = post]
          /\ shouldUpdateState' =
               [shouldUpdateState EXCEPT ![p] = after.shouldUpdateState]
          /\ composeNextState' =
               [composeNextState EXCEPT ![p] = after.composeNextState]
          /\ listeners' = [listeners EXCEPT ![p] = after.listeners]
          /\ timers' = [timers EXCEPT ![p] = after.timers]
          /\ commitLog' = Append(commitLog,
                 [proc |-> p, applied |-> TRUE, post |-> post])
          /\ lastResult' =
               WithRound(IF round.threw
                         THEN Thrown("commit", p, CallbackError("listener"))
                         ELSE Returned("commit", p, Undefined),
                         listeners[p], round)
          /\ calls' = IF round.threw THEN after.calls
                      ELSE Settle(after.calls, i, post)

\* timeout(0).then(() => { ...commit... }).then(resolve)
Commit(p, i) ==
  LET r == ApplyComposed(composeNextState[p], state[p])
      post == Spread(state[p], r.val)
      round == RoundOf(listeners[p], post)
      after == RoundEffects(listeners[p],
                            RoundEnv(listeners[p], <<>>, TRUE,
                                     Tail(timers[p]), calls),
                            p, post, Len(commitLog) + 1)
  IN IF r.threw
     THEN /\ commitLog' = Append(commitLog,
                 [proc |-> p, applied |-> FALSE, post |-> state[p]])
          /\ lastResult' =
               [Thrown("commit", p, CallbackError("update"))
                  EXCEPT !.registered = listeners[p]]
          /\ timers' = [timers EXCEPT ![p] = Tail(@)]
          /\ UNCHANGED <<state, listeners, shouldUpdateState,
                         composeNextState, calls>>
     ELSE /\ after.fits
          /\ state' = [state EXCEPT ![p] = post]
          /\ shouldUpdateState' =
               [shouldUpdateState EXCEPT ![p] = after.shouldUpdateState]
          /\ composeNextState' =
               [composeNextState EXCEPT ![p] = after.composeNextState]
          /\ listeners' = [listeners EXCEPT ![p] = after.listeners]
          /\ timers' = [timers EXCEPT ![p] = after.timers]
          /\ commitLog' = Append(commitLog,
                 [proc |-> p, applied |-> TRUE, post |-> post])
          /\ IF round.threw
             THEN /\ lastResult' =
                       WithRound(Thrown("commit", p, CallbackError("listener")),
                                 listeners[p], round)
                  /\ calls' = after.calls
             ELSE /\ lastResult' =
                       WithRound(Returned("commit", p, Undefined),
                                 listeners[p], round)
                  /\ calls' = Settle(after.calls, i, post)

\* (mutant) the second timer applies the composed updates as well
ResolveCommits(p, i) ==
  LET r == ApplyComposed(composeNextState[p], state[p])
  IN /\ state' = [state EXCEPT ![p] = IF r.threw THEN @ ELSE Spread(@, r.val)]
     /\ calls' = Settle(calls, i, state'[p])
     /\ lastResult' = Returned("resolve", p, Undefined)
     /\ timers' = [timers EXCEPT ![p] = Tail(@)]
     /\ UNCHANGED <<listeners, shouldUpdateState, composeNextState, commitLog>>

\* timeout(0).then(resolve)
Resolve(p, i) ==
  /\ calls' = Settle(calls, i, state[p])
  /\ lastResult' = Returned("resolve", p, Undefined)
  /\ timers' = [timers EXCEPT ![p] = Tail(@)]
  /\ UNCHANGED <<state, listeners, shouldUpdateState, composeNextState,
                 commitLog>>

\* the callbacks of one module run in the order their timers were set
FireTimer(p) ==
  /\ timers[p] # <<>>
  /\ IF Head(timers[p]).kind = "commit"
     THEN Commit(p, Head(timers[p]).call)
     ELSE Resolve(p, Head(timers[p]).call)
  /\ lastRead' = IF Len(calls') > Len(calls) THEN NoRead ELSE lastRead
  /\ UNCHANGED <<storeReady, storePromise, connectVars>>

----------------------------------------------------------------------------
\* onStateChange

\* addListener called by a script of process h on the module instance of p
AddListenerVia(h, p, l) ==
  /\ IF storeReady[p]
     THEN /\ Len(listeners[p]) < MaxListeners
          /\ listeners' = [listeners EXCEPT ![p] = Append(@, l)]
          /\ lastResult' = Via(Returned("addListener", p, Undefined), h)
     ELSE /\ lastResult' = Via(Thrown("addListener", p,
                 NotInitializedError("store.onStateChange.addListener")), h)
          /\ UNCHANGED listeners
  /\ UNCHANGED <<storeReady, state, shouldUpdateState,
                 composeNextState, storePromise, timers, calls, commitLog,
                 connectVars, lastRead>>

AddListener(p, l) == AddListenerVia(p, p, l)

\* removeListener called by a script of process h on the module instance of p
RemoveListenerVia(h, p, l) ==
  /\ IF storeReady[p]
     THEN /\ listeners' = [listeners EXCEPT ![p] = Without(@, l)]
          /\ lastResult' = Via(Returned("removeListener", p, Undefined), h)
     ELSE /\ lastResult' = Via(Thrown("removeListener", p,
                 NotInitializedError("store.onStateChange.removeListener")), h)
          /\ UNCHANGED listeners
  /\ UNCHANGED <<storeReady, state, shouldUpdateState,
                 composeNextState, storePromise, timers, calls, commitLog,
                 connectVars, lastRead>>

RemoveListener(p, l) == RemoveListenerVia(p, p, l)

\* the body evaluates listeners.some(...) and returns nothing
hasListenerResult(p, l) ==
  IF storeReady[p]
  THEN Returned("hasListener", p, Undefined)
  ELSE Thrown("hasListener", p,
              NotInitializedError("store.onStateChange.hasListener"))

HasListener(p, l) ==
  /\ lastResult' = hasListenerResult(p, l)
  /\ UNCHANGED <<storeReady, state, listeners, shouldUpdateState,
                 composeNextState, storePromise, timers, calls, commitLog,
                 connectVars, lastRead>>

\* () => !!listeners.length
hasListenersResult(p) ==
  Returned("hasListeners", p, BooleanValue(Len(listeners[p]) # 0))

HasListeners(p) ==
  /\ lastResult' = hasListenersResult(p)
  /\ UNCHANGED <<storeReady, state, listeners, shouldUpdateState,
                 composeNextState, storePromise, timers, calls, commitLog,
                 connectVars, lastRead>>

\* () => listeners.forEach(fn => fn(getState())): getState is reached only
\* when there is a listener to call
fireListenersResult(p) ==
  IF listeners[p] = <<>>
  THEN Returned("fireListeners", p, Undefined)
  ELSE IF ~storeReady[p]
  THEN Thrown("fireListeners", p, NotInitializedError("store.getState"))
  ELSE WithRound(IF RoundThrows(listeners[p])
                 THEN Thrown("fireListeners", p, CallbackError("listener"))
                 ELSE Returned("fireListeners", p, Undefined),
                 listeners[p], RoundOf(listeners[p], state[p]))

FireListeners(p) ==
  LET after == IF storeReady[p]
               THEN RoundEffects(listeners[p],
                                 RoundEnv(listeners[p], composeNextState[p],
                                          shouldUpdateState[p], timers[p],
                                          calls),
                                 p, state[p], Len(commitLog))
               ELSE RoundEnv(listeners[p], composeNextState[p],
                             shouldUpdateState[p], timers[p], calls)
  IN /\ after.fits
     /\ lastResult' = fireListenersResult(p)
     /\ listeners' = [listeners EXCEPT ![p] = after.listeners]
     /\ composeNextState' =
          [composeNextState EXCEPT ![p] = after.composeNextState]
     /\ shouldUpdateState' =
          [shouldUpdateState EXCEPT ![p] = after.shouldUpdateState]
     /\ timers' = [timers EXCEPT ![p] = after.timers]
     /\ calls' = after.calls
     /\ lastRead' = IF Len(calls') > Len(calls) THEN NoRead ELSE lastRead
     /\ UNCHANGED <<storeReady, state, storePromise, commitLog, connectVars>>

----------------------------------------------------------------------------
\* createStore / initStore

InitialStates == {EmptyMap, [k \in {"a", "b"} |-> 2]}

\* (mutant) no check that the store is already initialized
InitStoreAgain(p, initialState) ==
  /\ IF ~isBackgroundPage(p)
     THEN /\ lastResult' = Thrown("initStore", p, WrongContextError)
          /\ UNCHANGED <<state, storePromise, storeReady>>
     ELSE /\ state' = [state EXCEPT ![p] = Spread(@, initialState)]
          /\ storePromise' = [storePromise EXCEPT ![p] = "resolved"]
          /\ storeReady' = [storeReady EXCEPT ![p] = TRUE]
          /\ lastResult' = Returned("initStore", p, StoreValue)
  /\ UNCHANGED <<listeners, shouldUpdateState, composeNextState,
                 timers, calls, commitLog, connectVars, lastRead>>

\* (mutant) no check of the context
InitStoreAnywhere(p, initialState) ==
  /\ IF storeReady[p]
     THEN /\ lastResult' = Thrown("initStore", p, AlreadyInitializedError)
          /\ UNCHANGED <<state, storePromise, storeReady>>
     ELSE /\ state' = [state EXCEPT ![p] = Spread(@, initialState)]
          /\ storePromise' = [storePromise EXCEPT ![p] = "resolved"]
          /\ storeReady' = [storeReady EXCEPT ![p] = TRUE]
          /\ lastResult' = Returned("initStore", p, StoreValue)
  /\ UNCHANGED <<listeners, shouldUpdateState, composeNextState,
                 timers, calls, commitLog, connectVars, lastRead>>

\* (mutant) a refused second initStore clears the readiness flag
InitStoreResets(p, initialState) ==
  /\ IF storeReady[p]
     THEN /\ lastResult' = Thrown("initStore", p, AlreadyInitializedError)
          /\ storeReady' = [storeReady EXCEPT ![p] = FALSE]
          /\ UNCHANGED <<state, storePromise>>
     ELSE IF ~isBackgroundPage(p)
     THEN /\ lastResult' = Thrown("initStore", p, WrongContextError)
          /\ UNCHANGED <<state, storePromise, storeReady>>
     ELSE /\ state' = [state EXCEPT ![p] = Spread(@, initialState)]
          /\ storePromise' = [storePromise EXCEPT ![p] = "resolved"]
          /\ storeReady' = [storeReady EXCEPT ![p] = TRUE]
          /\ lastResult' = Returned("initStore", p, StoreValue)
  /\ UNCHANGED <<listeners, shouldUpdateState, composeNextState,
                 timers, calls, commitLog, connectVars, lastRead>>

\* (mutant) the store is made ready and the bumbleStore promise is left pending
InitStoreNoResolve(p, initialState) ==
  /\ IF storeReady[p]
     THEN /\ lastResult' = Thrown("initStore", p, AlreadyInitializedError)
          /\ UNCHANGED <<state, storePromise, storeReady>>
     ELSE IF ~isBackgroundPage(p)
     THEN /\ lastResult' = Thrown("initStore", p, WrongContextError)
          /\ UNCHANGED <<state, storePromise, storeReady>>
     ELSE /\ state' = [state EXCEPT ![p] = Spread(@, initialState)]
          /\ storeReady' = [storeReady EXCEPT ![p] = TRUE]
          /\ lastResult' = Returned("initStore", p, StoreValue)
          /\ UNCHANGED storePromise
  /\ UNCHANGED <<listeners, shouldUpdateState, composeNextState,
                 timers, calls, commitLog, connectVars, lastRead>>

InitStore(p, initialState) ==
  /\ IF storeReady[p]
     THEN /\ lastResult' = Thrown("initStore", p, AlreadyInitializedError)
          /\ UNCHANGED <<state, storePromise, storeReady>>
     ELSE IF ~isBackgroundPage(p)
     THEN /\ lastResult' = Thrown("initStore", p, WrongContextError)
          /\ UNCHANGED <<state, storePromise, storeReady>>
     ELSE /\ state' = [state EXCEPT ![p] = Spread(@, initialState)]
          /\ storePromise' = [storePromise EXCEPT ![p] = "resolved"]
          /\ storeReady' = [storeReady EXCEPT ![p] = TRUE]
          /\ lastResult' = Returned("initStore", p, StoreValue)
  /\ UNCHANGED <<listeners, shouldUpdateState, composeNextState,
                 timers, calls, commitLog, connectVars, lastRead>>

----------------------------------------------------------------------------
\* backgroundStore / connectToStore

\* the stages of the promise connectToStore returns:
\*   "requested"  chrome.runtime.getBackgroundPage has been called
\*   "window"     its callback has resolved the promise with the window of the
\*                background page; the chain waits for window.bumbleStore
\*   "resolved"   the store has been assigned to backgroundStore and returned
\*   "rejected"   getBackgroundPage has rejected
\* waited: the reaction of the chain was registered on the bumbleStore
\* promise while that promise was pending
Handshake(p, stage) == [proc |-> p, stage |-> stage, waited |-> FALSE]

Connects == 1..Len(connects)
RequestsOf(p) == {i \in Connects : connects[i].proc = p}

\* (mutant) the handshake started in every context
ConnectToStoreAnywhere(p, bridgeThrows) ==
  /\ Len(connects) < MaxConnects
  /\ connects' = Append(connects,
        Handshake(p, IF bridgeThrows THEN "rejected" ELSE "requested"))
  /\ lastResult' =
        [Returned("connectToStore", p, PromiseValue)
           EXCEPT !.error = IF bridgeThrows THEN BridgeError("exception")
                            ELSE NoError]
  /\ UNCHANGED <<storeReady, state, listeners, shouldUpdateState,
                 composeNextState, storePromise, timers, calls, commitLog,
                 backgroundStore, lastRead>>

\* connectToStore; bridgeThrows: chrome.runtime.getBackgroundPage raises an
\* exception, which getBackgroundPage catches and rejects with
ConnectToStore(p, bridgeThrows) ==
  /\ IF isBackgroundPage(p) \/ isContentScript(p)
     THEN /\ lastResult' = Returned("connectToStore", p, Undefined)
          /\ UNCHANGED connects
     ELSE /\ Len(connects) < MaxConnects
          /\ connects' = Append(connects,
                Handshake(p, IF bridgeThrows THEN "rejected" ELSE "requested"))
          /\ lastResult' =
                [Returned("connectToStore", p, PromiseValue)
                   EXCEPT !.error = IF bridgeThrows THEN BridgeError("exception")
                                    ELSE NoError]
  /\ UNCHANGED <<storeReady, state, listeners, shouldUpdateState,
                 composeNextState, storePromise, timers, calls, commitLog,
                 backgroundStore, lastRead>>

\* (mutant) chrome.runtime.lastError not looked at
BridgeCallbackIgnoresError(i, lastError) ==
  /\ connects[i].stage = "requested"
  /\ connects' = [connects EXCEPT ![i].stage = "window"]
  /\ lastResult' =
        [Returned("getBackgroundPage", connects[i].proc, Undefined)
           EXCEPT !.error = IF lastError THEN BridgeError("lastError")
                            ELSE NoError]
  /\ UNCHANGED <<storeReady, state, listeners, shouldUpdateState,
                 composeNextState, storePromise, timers, calls, commitLog,
                 backgroundStore, lastRead>>

\* the callback given to chrome.runtime.getBackgroundPage, and the reaction
\* ({ bumbleStore }) => bumbleStore
BridgeCallbackCall(i, lastError, record) ==
  /\ connects[i].stage = "requested"
  /\ connects' = [connects EXCEPT
                    ![i].stage = IF lastError THEN "rejected" ELSE "window",
                    ![i].waited = record /\ ~lastError
                                    /\ storePromise["bg"] = "pending"]
  /\ lastResult' =
        [Returned("getBackgroundPage", connects[i].proc, Undefined)
           EXCEPT !.error = IF lastError THEN BridgeError("lastError")
                            ELSE NoError]
  /\ UNCHANGED <<storeReady, state, listeners, shouldUpdateState,
                 composeNextState, storePromise, timers, calls, commitLog,
                 backgroundStore, lastRead>>

BridgeCallback(i, lastError) == BridgeCallbackCall(i, lastError, FALSE)

\* the same callback, the handshake recording whether its reaction has to wait
BridgeCallbackRecorded(i, lastError) == BridgeCallbackCall(i, lastError, TRUE)

\* (mutant) the window's bumbleStore promise not awaited
StoreArrivesEarly(i) ==
  /\ connects[i].stage = "window"
  /\ backgroundStore' = [backgroundStore EXCEPT ![connects[i].proc] = "connected"]
  /\ connects' = [connects EXCEPT ![i].stage = "resolved"]
  /\ lastResult' = Returned("connected", connects[i].proc, StoreValue)
  /\ UNCHANGED <<storeReady, state, listeners, shouldUpdateState,
                 composeNextState, storePromise, timers, calls, commitLog,
                 lastRead>>

\* store => { Object.assign(backgroundStore, store); return store }, the
\* reaction to the bumbleStore promise of the background page
StoreArrives(i) ==
  /\ connects[i].stage = "window"
  /\ storePromise["bg"] = "resolved"
  /\ backgroundStore' = [backgroundStore EXCEPT ![connects[i].proc] = "connected"]
  /\ connects' = [connects EXCEPT ![i].stage = "resolved"]
  /\ lastResult' = Returned("connected", connects[i].proc, StoreValue)
  /\ UNCHANGED <<storeReady, state, listeners, shouldUpdateState,
                 composeNextState, storePromise, timers, calls, commitLog,
                 lastRead>>

\* an operation of the backgroundStore object as loaded
Placeholder(p, name) ==
  /\ lastResult' = Thrown(name, p, NotConnectedError(name))
  /\ UNCHANGED <<storeReady, state, listeners, shouldUpdateState,
                 composeNextState, storePromise, timers, calls, commitLog,
                 connectVars, lastRead>>

\* (mutant) the connected backgroundStore reads the state of the module
\* instance of the calling process
BackgroundStoreGetStateLocal(p, sel) ==
  IF backgroundStore[p] = "placeholder"
  THEN Placeholder(p, "backgroundStore.getState")
  ELSE GetStateVia(p, p, sel)

\* backgroundStore.getState(keyOrFn) called in process p
BackgroundStoreGetState(p, sel) ==
  IF backgroundStore[p] = "placeholder"
  THEN Placeholder(p, "backgroundStore.getState")
  ELSE GetStateVia(p, "bg", sel)

\* backgroundStore.setState(newStateOrFn) called in process p
BackgroundStoreSetState(p, u) ==
  IF backgroundStore[p] = "placeholder"
  THEN Placeholder(p, "backgroundStore.setState")
  ELSE IF ~storeReady["bg"]
  THEN /\ lastResult' = Via(Thrown("setState", "bg",
                               NotInitializedError("store.setState")), p)
       /\ UNCHANGED <<storeReady, state, listeners, shouldUpdateState,
                      composeNextState, storePromise, timers, calls, commitLog,
                      connectVars, lastRead>>
  ELSE SetStateAcceptedVia(p, "bg", u)

\* (mutant) the placeholder's addListener forwards to the owner's
BackgroundStoreAddListenerForwards(p, l) == AddListenerVia(p, "bg", l)

\* backgroundStore.onStateChange.addListener(listener) called in process p
BackgroundStoreAddListener(p, l) ==
  IF backgroundStore[p] = "placeholder"
  THEN Placeholder(p, "backgroundStore.onStateChange.addListener")
  ELSE AddListenerVia(p, "bg", l)

\* backgroundStore.onStateChange.removeListener(listener) called in process p
BackgroundStoreRemoveListener(p, l) ==
  IF backgroundStore[p] = "placeholder"
  THEN Placeholder(p, "backgroundStore.onStateChange.removeListener")
  ELSE RemoveListenerVia(p, "bg", l)

----------------------------------------------------------------------------
\* The module as loaded, and its steps

Init ==
  /\ storeReady = [p \in Procs |-> FALSE]
  /\ state = [p \in Procs |-> EmptyMap]
  /\ listeners = [p \in Procs |-> <<>>]
  /\ shouldUpdateState = [p \in Procs |-> TRUE]
  /\ composeNextState = [p \in Procs |-> <<>>]
  /\ storePromise = [p \in Procs |-> "pending"]
  /\ timers = [p \in Procs |-> <<>>]
  /\ calls = <<>>
  /\ commitLog = <<>>
  /\ lastResult = Returned("load", "bg", Undefined)
  /\ backgroundStore = [p \in Procs |-> "placeholder"]
  /\ connects = <<>>
  /\ lastRead = NoRead

Next ==
  \/ \E p \in Procs, s \in InitialStates : InitStore(p, s)
  \/ \E p \in StoreUsers, sel \in Selectors : GetState(p, sel)
  \/ \E p \in StoreUsers, u \in Updates : SetState(p, u)
  \/ \E p \in StoreUsers : FireTimer(p)
  \/ \E p \in StoreUsers, l \in Listeners : AddListener(p, l)
  \/ \E p \in StoreUsers, l \in Listeners : RemoveListener(p, l)
  \/ \E p \in StoreUsers, l \in Listeners : HasListener(p, l)
  \/ \E p \in StoreUsers : HasListeners(p)
  \/ \E p \in StoreUsers : FireListeners(p)

Spec == Init /\ [][Next]_vars

\* The reads and writes of the state, with the read history
NextReads ==
  \/ \E p \in Procs, s \in InitialStates : InitStore(p, s)
  \/ \E p \in StoreUsers, sel \in Selectors : GetStateRecorded(p, sel)
  \/ \E p \in StoreUsers, u \in Updates : SetState(p, u)
  \/ \E p \in StoreUsers : FireTimer(p)

SpecReads == Init /\ [][NextReads]_vars

\* The connector: the owner is initialized in the background page, the
\* other processes connect and use the store through backgroundStore.  The
\* arguments given to the operations of backgroundStore:
HandleSelectors == {NoSelector, KeySelector("a")}
HandleUpdates == {[fn |-> "none", obj |-> o] : o \in ObjectUpdates}
HandleListeners == {"l1"}

NextConnect ==
  \/ \E p \in Procs, s \in InitialStates : InitStore(p, s)
  \/ \E p \in Procs, bridgeThrows \in BOOLEAN : ConnectToStore(p, bridgeThrows)
  \/ \E i \in Connects, lastError \in BOOLEAN : BridgeCallback(i, lastError)
  \/ \E i \in Connects : StoreArrives(i)
  \/ \E p \in Procs, sel \in HandleSelectors : BackgroundStoreGetState(p, sel)
  \/ \E p \in Procs, u \in HandleUpdates : BackgroundStoreSetState(p, u)
  \/ \E p \in Procs, l \in HandleListeners : BackgroundStoreAddListener(p, l)
  \/ \E p \in Procs, l \in HandleListeners : BackgroundStoreRemoveListener(p, l)
  \/ \E p \in StoreUsers : FireTimer(p)

SpecConnect == Init /\ [][NextConnect]_vars

\* The handshakes alone, each recording whether it waited. The reaction
\* registered on the bumbleStore promise is run by the job queue once the
\* promise is resolved: a handshake that can take its last step takes it.
NextConnectFair ==
  \/ \E p \in Procs, s \in InitialStates : InitStore(p, s)
  \/ \E p \in Procs, b \in BOOLEAN : ConnectToStore(p, b)
  \/ \E i \in Connects, e \in BOOLEAN : BridgeCallbackRecorded(i, e)
  \/ \E i \in Connects : StoreArrives(i)
  \/ \E p \in Procs, sel \in HandleSelectors : BackgroundStoreGetState(p, sel)

SpecConnectFair ==
  /\ Init
  /\ [][NextConnectFair]_vars
  /\ WF_vars(\E i \in Connects : StoreArrives(i))

\* The owner's store with listeners that call the store while a round runs.
RoundListeners == Listeners \cup {"adder", "remover", "setter"}

NextRounds ==
  \/ \E s \in InitialStates : InitStore("bg", s)
  \/ \E u \in HandleUpdates : SetState("bg", u)
  \/ FireTimer("bg")
  \/ \E l \in RoundListeners : AddListener("bg", l)
  \/ FireListeners("bg")

SpecRounds == Init /\ [][NextRounds]_vars

----------------------------------------------------------------------------
\* Reading the histories

CallIds == 1..Len(calls)

\* the calls of window w, in call order, and their updates
WindowCalls(w) == SelectSeq(calls, LAMBDA c : c.win = w)
WindowUpdates(w) == [k \in 1..Len(WindowCalls(w)) |-> WindowCalls(w)[k].upd]

\* the commit of window w has run and has assigned its result to the state
Committed(w) == w <= Len(commitLog) /\ commitLog[w].applied

\* the partial mapping update u asks to merge when the state is s
PartialOf(u, s) == IF u.fn = "none" THEN u.obj ELSE CallUpdateFn(u.fn, s).val
UpdateReturns(u, s) == u.fn = "none" \/ ~CallUpdateFn(u.fn, s).threw

\* the left-to-right fold of the updates us over s
RECURSIVE FoldUpdates(_, _)
FoldUpdates(us, s) ==
  IF us = <<>> THEN s
  ELSE FoldUpdates(Tail(us), Spread(s, PartialOf(Head(us), s)))

RECURSIVE AllReturn(_, _)
AllReturn(us, s) ==
  \/ us = <<>>
  \/ /\ UpdateReturns(Head(us), s)
     /\ AllReturn(Tail(us), Spread(s, PartialOf(Head(us), s)))

\* the keys update u writes
KeysWritten(u) == IF u.fn = "none" THEN DOMAIN u.obj
                  ELSE IF u.fn = "incA" THEN {"a"} ELSE {}

CommitTimers(p) == {k \in 1..Len(timers[p]) : timers[p][k].kind = "commit"}

----------------------------------------------------------------------------
\* C1: when the commit callback of a window runs and every update of the
\* window returns, the state it leaves is the left-to-right fold of the
\* window's updates (in call order; a function update is given the result of
\* the updates before it, later keys overwrite, other keys keep their value)
\* over the state in which the window's first setState was called.
C1_CommitIsFoldOfWindow ==
  [][(lastResult'.op = "commit" /\ Len(commitLog') = Len(commitLog) + 1) =>
       LET w == Len(commitLog')
           p == lastResult'.proc
           start == WindowCalls(w)[1].pre
       IN AllReturn(WindowUpdates(w), start) =>
            /\ commitLog'[w].applied
            /\ state'[p] = FoldUpdates(WindowUpdates(w), start)]_vars

\* two function updates of one window, chained: {a: 2, b: 2} becomes {a: 4, b: 2}
C1_Witness ==
  \E w \in 1..Len(commitLog) :
    /\ Committed(w)
    /\ Len(WindowCalls(w)) = 2
    /\ \A k \in 1..2 : WindowCalls(w)[k].upd.fn = "incA"
    /\ WindowCalls(w)[1].pre = [k \in {"a", "b"} |-> 2]
    /\ state["bg"] = [k \in {"a"} |-> 4] @@ [k \in {"b"} |-> 2]

----------------------------------------------------------------------------
\* C2 (as claimed): a window with calls in it has exactly one deferred commit:
\* while its commit has not run exactly one commit callback is pending, and
\* the commit that has run has changed the state once.
C2_ExactlyOneCommitPerWindow ==
  /\ \A i \in CallIds :
       calls[i].win > Len(commitLog) =>
         Cardinality(CommitTimers(calls[i].proc)) = 1
  /\ \A w \in 1..Len(commitLog) : commitLog[w].applied

----------------------------------------------------------------------------
\* C3 (as claimed): a promise returned by setState is resolved only after the
\* commit of its window has been applied, with the state that commit
\* produced, and the promises of one window resolve with the same content.
C3_PromiseResolvesAfterCommit ==
  /\ \A i \in CallIds :
       calls[i].settled =>
         /\ Committed(calls[i].win)
         /\ calls[i].value = commitLog[calls[i].win].post
  /\ \A i, j \in CallIds :
       (calls[i].settled /\ calls[j].settled /\ calls[i].win = calls[j].win)
         => calls[i].value = calls[j].value

----------------------------------------------------------------------------
\* C4 (as claimed): no accepted update is left uncommitted for ever: once
\* no deferred callback is pending, every accepted setState call belongs to
\* a window whose commit has been applied.
C4_AcceptedIsCommitted ==
  \A i \in CallIds :
    timers[calls[i].proc] = <<>> => Committed(calls[i].win)

----------------------------------------------------------------------------
\* C5 (as claimed): a commit that has been applied with distinct listeners
\* registered has invoked each of them exactly once, in registration order,
\* each with the post-commit state.
DistinctListeners(ls) ==
  \A i, j \in 1..Len(ls) : ls[i] = ls[j] => i = j

C5_EachListenerOnceInOrder ==
  (/\ lastResult.op = "commit"
   /\ commitLog[Len(commitLog)].applied
   /\ DistinctListeners(lastResult.registered))
  => /\ Len(lastResult.invoked) = Len(lastResult.registered)
     /\ \A k \in 1..Len(lastResult.invoked) :
          /\ lastResult.invoked[k].listener = lastResult.registered[k]
          /\ lastResult.invoked[k].arg = state[lastResult.proc]

----------------------------------------------------------------------------
\* C6 (as claimed): once the promise of setState({k: v}) has resolved, and no
\* other call of its window or of a later one writes k, getState(k) is v and
\* the resolved value maps k to v.
C6_RoundTrip ==
  \A i \in CallIds : \A k \in Keys :
    (/\ calls[i].settled
     /\ calls[i].upd.fn = "none"
     /\ k \in DOMAIN calls[i].upd.obj
     /\ \A j \in CallIds \ {i} :
          calls[j].win >= calls[i].win => k \notin KeysWritten(calls[j].upd))
    => /\ getStateResult(calls[i].proc, KeySelector(k))
            = Returned("getState", calls[i].proc,
                       NumberValue(calls[i].upd.obj[k]))
       /\ k \in DOMAIN calls[i].value
       /\ calls[i].value[k] = calls[i].upd.obj[k]

----------------------------------------------------------------------------
\* What a refused call must leave alone
StoreUnchanged ==
  UNCHANGED <<storeReady, state, listeners, shouldUpdateState,
              composeNextState, storePromise, timers, calls, commitLog>>

\* C7: a getState or setState call on a module whose storeReady is false
\* throws the not-initialized error naming the operation (setState returns no
\* promise) and changes neither the state, the composed updates, the
\* listeners and the flags, nor the pending timers.
C7_NotInitializedThrows ==
  [][(/\ lastResult'.op \in {"getState", "setState"}
      /\ ~storeReady[lastResult'.proc])
     => /\ lastResult'.threw
        /\ lastResult'.ret.kind # "promise"
        /\ lastResult'.error =
             NotInitializedError(IF lastResult'.op = "getState"
                                 THEN "store.getState" ELSE "store.setState")
        /\ StoreUnchanged]_vars

\* setState has been refused in the background page before initStore
C7_Witness ==
  /\ lastResult.op = "setState"
  /\ lastResult.proc = "bg"
  /\ lastResult.threw
  /\ ~storeReady["bg"]

----------------------------------------------------------------------------
\* C8 (as claimed): each of the five onStateChange operations, called on a
\* module whose storeReady is false, throws the not-initialized error and
\* changes nothing.
C8_ListenerOperationsGated ==
  [][(/\ lastResult'.op \in {"addListener", "removeListener", "hasListener",
                             "hasListeners", "fireListeners"}
      /\ ~storeReady[lastResult'.proc])
     => /\ lastResult'.threw
        /\ lastResult'.error.kind = "NotInitialized"
        /\ StoreUnchanged]_vars

----------------------------------------------------------------------------
\* C9: an initStore call on a module whose storeReady is already true throws
\* the already-initialized error, whatever its argument, and leaves the
\* state, the listeners, the composed updates and the flags as they were.
C9_SecondInitStoreThrows ==
  [][(lastResult'.op = "initStore" /\ storeReady[lastResult'.proc])
     => /\ lastResult'.threw
        /\ lastResult'.error = AlreadyInitializedError
        /\ StoreUnchanged]_vars

\* initStore has been refused on a store whose state a commit had changed,
\* so that merging an initial state again would have changed it
C9_Witness ==
  /\ lastResult.op = "initStore"
  /\ lastResult.error = AlreadyInitializedError
  /\ \E i \in 1..Len(commitLog) : commitLog[i].applied
  /\ \E s \in InitialStates : Spread(state["bg"], s) # state["bg"]

----------------------------------------------------------------------------
\* C10: an initStore call in a process for which isBackgroundPage() is false
\* throws the wrong-context error; the state of that module stays empty, its
\* storeReady false and its window.bumbleStore promise pending.
C10_WrongContextThrows ==
  [][(lastResult'.op = "initStore" /\ ~isBackgroundPage(lastResult'.proc))
     => /\ lastResult'.threw
        /\ lastResult'.error = WrongContextError
        /\ state'[lastResult'.proc] = EmptyMap
        /\ ~storeReady'[lastResult'.proc]
        /\ storePromise'[lastResult'.proc] = "pending"
        /\ StoreUnchanged]_vars

\* initStore has been refused in the popup, an extension page that is not the
\* background page
C10_Witness ==
  /\ lastResult.op = "initStore"
  /\ lastResult.error = WrongContextError
  /\ lastResult.proc = "popup"
  /\ location["popup"].protocol = "chrome-extension:"
  /\ storePromise["popup"] = "pending"

----------------------------------------------------------------------------
\* C11: storeReady is false when the module is loaded, becomes true only in
\* a successful initStore of that module (which happens only while it is
\* false, so at most once), is never made false again by any step (refused
\* initStore, commit, throwing update function or listener), and once it is
\* true no getState or setState call fails with the not-initialized error.
C11_ReadinessMonotone ==
  /\ \A p \in Procs : ~storeReady[p]
  /\ [][/\ \A p \in Procs :
             /\ (storeReady[p] => storeReady'[p])
             /\ ((~storeReady[p] /\ storeReady'[p])
                  => /\ lastResult'.op = "initStore"
                     /\ lastResult'.proc = p
                     /\ ~lastResult'.threw)
        /\ ((lastResult'.op = "initStore" /\ ~lastResult'.threw)
              => ~storeReady[lastResult'.proc])
        /\ ((lastResult'.op \in {"getState", "setState"}
              /\ storeReady[lastResult'.proc])
              => lastResult'.error.kind # "NotInitialized")]_vars

\* a read succeeds on a store that has seen a commit callback throw in an
\* update function and has a throwing listener registered
C11_Witness ==
  /\ storeReady["bg"]
  /\ lastResult.op = "getState"
  /\ ~lastResult.threw
  /\ \E w \in 1..Len(commitLog) : ~commitLog[w].applied
  /\ \E k \in 1..Len(listeners["bg"]) : ListenerThrows(listeners["bg"][k])

----------------------------------------------------------------------------
\* C12 (as claimed): a getState() that returns the whole state returns the
\* content the previous such call returned when no setState call was made
\* between the two, also when deferred callbacks ran between them.
C12_ReadsIdempotentAcrossYield ==
  [][(/\ lastResult'.op = "getState"
      /\ ~lastResult'.threw
      /\ lastResult'.ret.kind = "object"
      /\ lastRead.valid
      /\ lastRead.proc = lastResult'.proc)
     => lastResult'.ret.map = lastRead.map]_vars

\* C12 (amended): the same, for two calls between which no commit callback
\* has run.
C12_ReadsIdempotent ==
  [][(/\ lastResult'.op = "getState"
      /\ ~lastResult'.threw
      /\ lastResult'.ret.kind = "object"
      /\ lastRead.valid
      /\ lastRead.proc = lastResult'.proc
      /\ lastRead.commits = Len(commitLog'))
     => lastResult'.ret.map = lastRead.map]_vars

\* a second read of the state {a: 1}, the first made while an uncommitted
\* setState call was pending behind its timers, one of which has fired since
C12_Witness ==
  /\ lastResult.op = "getState"
  /\ lastResult.ret = ObjectValue([k \in {"a"} |-> 1])
  /\ lastRead.valid
  /\ lastRead.again
  /\ lastRead.commits = Len(commitLog)
  /\ lastRead.commits = 1
  /\ Len(calls) = 2
  /\ composeNextState["bg"] # <<>>
  /\ Len(timers["bg"]) = 2

----------------------------------------------------------------------------
\* C13 (as claimed): on an initialized store getState(k) returns, for every
\* string k, the empty string included, the value stored at key k (undefined
\* when the state has no such key), never the whole state.
C13_StringSelectorReturnsValue ==
  \A p \in StoreUsers : \A k \in KeyStrings :
    storeReady[p] =>
      getStateResult(p, KeySelector(k)) =
        Returned("getState", p,
                 IF k \in DOMAIN state[p]
                 THEN NumberValue(state[p][k]) ELSE Undefined)

----------------------------------------------------------------------------
\* C14: the state of a module changes only in a successful initStore and in
\* a commit of that module; each merges a mapping into it: no key of the
\* state is ever removed, and a commit leaves the value of every key that no
\* update of the committed chain writes.
C14_StateOnlyMergedInto ==
  [][\A p \in Procs :
       /\ DOMAIN state[p] \subseteq DOMAIN state'[p]
       /\ state'[p] # state[p] =>
            /\ lastResult'.proc = p
            /\ \/ /\ lastResult'.op = "initStore"
                  /\ ~lastResult'.threw
                  /\ \E s \in InitialStates : state'[p] = Spread(state[p], s)
               \/ /\ lastResult'.op = "commit"
                  /\ Len(commitLog') = Len(commitLog) + 1
                  /\ commitLog'[Len(commitLog')].applied
                  /\ \A k \in DOMAIN state[p] \ ChainKeys(composeNextState[p]) :
                       state'[p][k] = state[p][k]]_vars

\* a commit of setState({a: 1}) on the state {a: 2, b: 2} has left b as it was
C14_Witness ==
  /\ lastResult.op = "commit"
  /\ ~lastResult.threw
  /\ Len(commitLog) = 1
  /\ calls[1].upd.fn = "none"
  /\ calls[1].pre = [k \in {"a", "b"} |-> 2]
  /\ state["bg"] = [k \in {"a"} |-> 1] @@ [k \in {"b"} |-> 2]

----------------------------------------------------------------------------
\* C20 (as claimed): no callback occurs twice in the listeners array of a
\* module, whatever addListener and removeListener calls were made.
C20_ListenersUnique ==
  \A p \in Procs : DistinctListeners(listeners[p])

----------------------------------------------------------------------------
\* The calls made through backgroundStore: those the placeholder refuses, and
\* those that ran in the module of another process than the caller's
PlaceholderOps ==
  {"backgroundStore.getState", "backgroundStore.setState",
   "backgroundStore.onStateChange.addListener",
   "backgroundStore.onStateChange.removeListener"}
ThroughBackgroundStore(r) == r.op \in PlaceholderOps \/ r.via # r.proc

OwnerUnchanged ==
  UNCHANGED <<storeReady, state, listeners, shouldUpdateState,
              composeNextState, storePromise, timers, calls, commitLog>>

\* C15: connectToStore called where isBackgroundPage() or isContentScript()
\* is true returns undefined, makes no getBackgroundPage request and leaves
\* backgroundStore (and everything else) as it was; no request ever belongs
\* to such a process and its backgroundStore stays the placeholder.
C15_NoConnectFromOwnerOrPage ==
  [][/\ ((/\ lastResult'.op = "connectToStore"
           /\ \/ isBackgroundPage(lastResult'.proc)
              \/ isContentScript(lastResult'.proc))
         => /\ lastResult'.ret = Undefined
            /\ ~lastResult'.threw
            /\ UNCHANGED <<connects, backgroundStore>>
            /\ OwnerUnchanged)
     /\ \A p \in Procs :
           (isBackgroundPage(p) \/ isContentScript(p))
             => /\ RequestsOf(p)' = {}
                /\ backgroundStore'[p] = "placeholder"]_vars

\* connectToStore has returned undefined in the initialized background page
\* while a handshake of the popup is in flight
C15_Witness ==
  /\ lastResult.op = "connectToStore"
  /\ lastResult.proc = "bg"
  /\ lastResult.ret = Undefined
  /\ storeReady["bg"]
  /\ \E i \in Connects : connects[i].stage = "requested"

----------------------------------------------------------------------------
\* C16: the promise of connectToStore is resolved, and backgroundStore
\* overwritten, only in states where storeReady of the background page is
\* true; a call through the connected backgroundStore never fails with the
\* not-initialized error.
C16_ConnectResolvesAfterInitStore ==
  [][/\ \A i \in Connects :
           (connects[i].stage # "resolved" /\ connects'[i].stage = "resolved")
             => (storeReady["bg"] /\ storeReady'["bg"])
     /\ \A p \in Procs :
           (backgroundStore'[p] = "connected" => storeReady'["bg"])
     /\ ((ThroughBackgroundStore(lastResult')
            /\ backgroundStore[lastResult'.via] = "connected")
           => lastResult'.error.kind # "NotInitialized")]_vars

\* a handshake that was waiting for window.bumbleStore before initStore has
\* resolved, and the first setState through backgroundStore was accepted
C16_Witness ==
  /\ lastResult.op = "setState"
  /\ lastResult.via = "popup"
  /\ lastResult.proc = "bg"
  /\ ~lastResult.threw
  /\ Len(calls) = 1
  /\ backgroundStore["popup"] = "connected"

----------------------------------------------------------------------------
\* C17: backgroundStore of a process is the placeholder exactly until one of
\* its handshakes has completed.  Until then each of its four operations
\* throws the not-connected error naming it and changes nothing in the owner
\* (state, listeners, composed updates, timers), also while a handshake is in
\* flight; afterwards none of them fails with the not-connected error.
C17_PlaceholderRefusesUntilConnected ==
  [][/\ \A p \in Procs :
           (backgroundStore'[p] = "connected"
             <=> \E i \in RequestsOf(p)' : connects'[i].stage = "resolved")
     /\ (ThroughBackgroundStore(lastResult') =>
           IF backgroundStore[lastResult'.via] = "placeholder"
           THEN /\ lastResult'.threw
                /\ lastResult'.op \in PlaceholderOps
                /\ lastResult'.error = NotConnectedError(lastResult'.op)
                /\ OwnerUnchanged
                /\ UNCHANGED <<connects, backgroundStore>>
           ELSE lastResult'.error.kind # "NotConnected")]_vars

\* the placeholder of the popup has refused addListener while the owner was
\* initialized and the popup's handshake was waiting for its callback
C17_Witness ==
  /\ lastResult.op = "backgroundStore.onStateChange.addListener"
  /\ lastResult.proc = "popup"
  /\ lastResult.threw
  /\ storeReady["bg"]
  /\ \E i \in RequestsOf("popup") : connects[i].stage = "requested"

\* the connected backgroundStore of the popup has added a listener to the
\* owner's array
C17_WitnessConnected ==
  /\ lastResult.op = "addListener"
  /\ lastResult.via = "popup"
  /\ ~lastResult.threw
  /\ listeners["bg"] = <<"l1">>

----------------------------------------------------------------------------
\* C18 (as claimed): the connectToStore calls of one process make at most one
\* getBackgroundPage request.
C18_HandshakeAtMostOnce ==
  \A p \in Procs : Cardinality(RequestsOf(p)) <= 1

----------------------------------------------------------------------------
\* C19: when the host bridge reports an error for a request (lastError in
\* the callback, or an exception of the call), the promise of connectToStore
\* is rejected and stays rejected, no request is made in its place, and
\* backgroundStore is left as it was: the placeholder of a process none of
\* whose handshakes has completed.
C19_BridgeErrorRejects ==
  [][/\ ((lastResult'.error.kind = "Bridge" /\ lastResult'.op = "getBackgroundPage")
         => /\ Len(connects') = Len(connects)
            /\ \E i \in Connects :
                 /\ connects[i].stage = "requested"
                 /\ connects'[i] = Handshake(lastResult'.proc, "rejected")
                 /\ \A j \in Connects \ {i} : connects'[j] = connects[j]
            /\ UNCHANGED backgroundStore
            /\ OwnerUnchanged)
     /\ ((lastResult'.error.kind = "Bridge" /\ lastResult'.op = "connectToStore")
         => /\ connects' = Append(connects, Handshake(lastResult'.proc, "rejected"))
            /\ UNCHANGED backgroundStore
            /\ OwnerUnchanged)
     /\ \A i \in Connects :
           (connects[i].stage = "rejected" => connects'[i] = connects[i])
     /\ \A p \in Procs :
           ((\A i \in RequestsOf(p)' : connects'[i].stage = "rejected")
             => backgroundStore'[p] = "placeholder")]_vars

\* the only handshake of the popup was rejected with chrome.runtime.lastError
\* after the owner was initialized, and backgroundStore.getState still throws
C19_Witness ==
  /\ lastResult.op = "backgroundStore.getState"
  /\ lastResult.proc = "popup"
  /\ lastResult.error = NotConnectedError("backgroundStore.getState")
  /\ storeReady["bg"]
  /\ connects = <<Handshake("popup", "rejected")>>


----------------------------------------------------------------------------
\* C21 (as claimed): on an initialized store hasListener(l) returns true
\* exactly when l is in the listeners array and false otherwise, and
\* hasListeners() returns true exactly when the array is not empty.
C21_HasListenerTellsMembership ==
  \A p \in StoreUsers :
    storeReady[p] =>
      /\ \A l \in Listeners :
           hasListenerResult(p, l) =
             Returned("hasListener", p,
                      BooleanValue(\E k \in 1..Len(listeners[p]) :
                                     listeners[p][k] = l))
      /\ hasListenersResult(p) =
           Returned("hasListeners", p, BooleanValue(listeners[p] # <<>>))

----------------------------------------------------------------------------
\* C28 (as claimed): in every reachable state, the states after an update
\* function or a listener raised in a commit included, shouldUpdateState is
\* false exactly when one deferred commit is pending, at most one deferred
\* commit is pending, and with no commit pending the composed update is the
\* identity.
C28_FlagAgreesWithScheduler ==
  \A p \in StoreUsers :
    /\ Cardinality(CommitTimers(p)) <= 1
    /\ (~shouldUpdateState[p]) <=> (Cardinality(CommitTimers(p)) = 1)
    /\ (CommitTimers(p) = {}) => (composeNextState[p] = <<>>)

----------------------------------------------------------------------------
\* the listeners a round has invoked, in the order of their invocation
InvokedListeners(r) == [k \in 1..Len(r.invoked) |-> r.invoked[k].listener]
Range(f) == {f[k] : k \in DOMAIN f}

\* the step is a firing round: a commit that reached listeners.forEach, or
\* a fireListeners call
FiringRound ==
  \/ lastResult'.op = "fireListeners"
  \/ /\ lastResult'.op = "commit"
     /\ Len(commitLog') = Len(commitLog) + 1
     /\ commitLog'[Len(commitLog')].applied

\* C26 (as claimed): a firing round, by a commit or by fireListeners, invokes
\* exactly the listeners that were in the array when the round started, in
\* their order: a listener added by a callback during the round is not
\* invoked in it, a listener removed by a callback during the round is still
\* invoked in it, and both changes are in the array the next round starts
\* with.
C26_RoundInvokesListenersAtStart ==
  [][FiringRound =>
       LET r == lastResult'
           p == r.proc
       IN /\ InvokedListeners(r) = listeners[p]
          /\ ("adder" \in Range(listeners[p])
                /\ "remover" \notin Range(listeners[p]))
               => /\ Len(listeners'[p]) > Len(listeners[p])
                  /\ listeners'[p][Len(listeners'[p])] = "l1"
          /\ ("remover" \in Range(listeners[p])
                /\ "adder" \notin Range(listeners[p]))
               => "l1" \notin Range(listeners'[p])]_vars

----------------------------------------------------------------------------
\* C27: a setState call made by a listener while a commit fires the
\* listeners opens a new window: the call schedules its own deferred commit,
\* the state the running commit leaves is the result of the updates composed
\* before the round only, every listener of the running round is given that
\* state, the composed update holds the new update alone, and every commit
\* that is applied, the later one of the new window included, leaves the fold
\* of its own window's updates and gives it to the listeners it invokes.
C27_SetStateInRoundOpensWindow ==
  [][(lastResult'.op = "commit" /\ Len(commitLog') = Len(commitLog) + 1
        /\ commitLog'[Len(commitLog')].applied) =>
       LET p == lastResult'.proc
           w == Len(commitLog')
           j == Len(calls) + 1
       IN /\ state'[p] = FoldUpdates(WindowUpdates(w), state[p])
          /\ \A k \in 1..Len(lastResult'.invoked) :
               lastResult'.invoked[k].arg = state'[p]
          /\ (Len(calls') > Len(calls)) =>
               /\ \A k \in j..Len(calls') :
                    /\ calls'[k].win = w + 1
                    /\ calls'[k].pre = state'[p]
               /\ {tm \in Range(timers'[p]) : tm.kind = "commit"} =
                    {CommitTimer(j)}
               /\ ~shouldUpdateState'[p]
               /\ composeNextState'[p] =
                    [k \in 1..(Len(calls') - Len(calls)) |->
                       calls'[j + k - 1].upd]]_vars

\* the listener setter has called setState({b: 1}) in the round of the first
\* commit: the commit has left {a: 1}, both listeners were given it, and the
\* call is in window 2 with its commit pending
C27_Witness ==
  /\ lastResult.op = "commit"
  /\ Len(commitLog) = 1
  /\ InvokedListeners(lastResult) = <<"setter", "l1">>
  /\ \A k \in 1..2 : lastResult.invoked[k].arg = [x \in {"a"} |-> 1]
  /\ state["bg"] = [x \in {"a"} |-> 1]
  /\ Len(calls) = 2
  /\ calls[2].upd = ListenerUpdate
  /\ calls[2].win = 2
  /\ CommitTimer(2) \in Range(timers["bg"])

----------------------------------------------------------------------------
\* C25: no intermediate state is observable. A setState call leaves the
\* state as it is; while a window has calls whose commit has not run, the
\* state is the one in which each call of the window, the first included,
\* was made and a getState() made then returns it; a commit gives its listeners the fold
\* of all the updates of its window, and fireListeners gives them the state
\* unchanged.
C25_NoIntermediateState ==
  [][/\ (lastResult'.op = "setState") => (state' = state)
     /\ \A i \in 1..Len(calls') :
          (calls'[i].win > Len(commitLog')) =>
            /\ state'[calls'[i].proc] = calls'[i].pre
            /\ (lastResult'.op = "getState" /\ lastResult'.proc = calls'[i].proc
                  /\ lastResult'.ret.kind = "object")
                 => lastResult'.ret = ObjectValue(calls'[i].pre)
     /\ FiringRound =>
          LET r == lastResult'
              p == r.proc
              w == Len(commitLog')
          IN \A k \in 1..Len(r.invoked) :
               IF r.op = "commit"
               THEN r.invoked[k].arg =
                      FoldUpdates(WindowUpdates(w), WindowCalls(w)[1].pre)
               ELSE r.invoked[k].arg = state[p] /\ state' = state]_vars

\* two calls of one window are pending, their fold differs from the state,
\* and getState() has just returned the state of before the window
C25_Witness ==
  /\ Len(calls) = 2
  /\ \A i \in 1..2 : calls[i].win = Len(commitLog) + 1
  /\ calls[1].pre = [k \in {"a", "b"} |-> 2]
  /\ FoldUpdates(WindowUpdates(Len(commitLog) + 1), calls[1].pre) # calls[1].pre
  /\ lastResult.op = "getState"
  /\ lastResult.ret = ObjectValue(calls[1].pre)
  /\ state["bg"] = calls[1].pre

----------------------------------------------------------------------------
\* C23 (as claimed): an accepted setState call appends exactly one step to
\* the composed update; the commit callback finds composed exactly the
\* updates of the calls accepted since the previous commit, evaluates them
\* then, in call order, each against the result of the steps before it, and
\* leaves the composed update the identity (but for the calls listeners make
\* during its round), so that no step is applied by a second commit.
C23_EachStepAppliedOnce ==
  [][/\ (lastResult'.op = "setState" /\ ~lastResult'.threw) =>
          LET p == lastResult'.proc
          IN /\ Len(calls') = Len(calls) + 1
             /\ composeNextState'[p] =
                  Append(composeNextState[p], calls'[Len(calls')].upd)
     /\ (lastResult'.op = "commit" /\ Len(commitLog') = Len(commitLog) + 1) =>
          LET p == lastResult'.proc
              w == Len(commitLog')
          IN /\ composeNextState[p] = WindowUpdates(w)
             /\ state'[p] = FoldUpdates(WindowUpdates(w), state[p])
             /\ composeNextState'[p] =
                  [k \in 1..(Len(calls') - Len(calls)) |->
                     calls'[Len(calls) + k].upd]]_vars

----------------------------------------------------------------------------
\* C22: the operations of a connected backgroundStore run in the module
\* instance of the background page. No step changes the state, the
\* listeners, the composed update or the timers of another process's
\* instance; a store operation made through backgroundStore is made by a
\* connected process and runs in "bg": its getState returns what the
\* owner's state holds at the call, its setState composes the update into
\* the owner's chain and sets the owner's timers, its addListener appends to
\* the owner's listeners; and the commit of such an update merges it into the
\* owner's state and invokes the owner's listeners with that state.
C22_HandleActsOnOwner ==
  [][LET r == lastResult'
     IN /\ \A p \in Procs \ {"bg"} :
             /\ state'[p] = state[p]
             /\ listeners'[p] = listeners[p]
             /\ composeNextState'[p] = composeNextState[p]
             /\ timers'[p] = timers[p]
        /\ (r.op \in {"getState", "setState", "addListener", "removeListener"})
             => /\ r.proc = "bg"
                /\ r.via # "bg"
                /\ backgroundStore[r.via] = "connected"
        /\ (r.op = "getState" /\ ~r.threw) =>
             r.ret \in {getStateValue("bg", sel) : sel \in HandleSelectors}
        /\ (r.op = "setState" /\ ~r.threw) =>
             /\ calls'[Len(calls')].proc = "bg"
             /\ calls'[Len(calls')].pre = state["bg"]
             /\ composeNextState'["bg"] =
                  Append(composeNextState["bg"], calls'[Len(calls')].upd)
             /\ Len(timers'["bg"]) > Len(timers["bg"])
        /\ (r.op = "addListener" /\ ~r.threw) =>
             /\ Len(listeners'["bg"]) = Len(listeners["bg"]) + 1
             /\ SubSeq(listeners'["bg"], 1, Len(listeners["bg"]))
                  = listeners["bg"]
        /\ (r.op = "commit") =>
             /\ r.proc = "bg"
             /\ state'["bg"] =
                  FoldUpdates(composeNextState["bg"], state["bg"])
             /\ InvokedListeners(r) = listeners["bg"]
             /\ \A k \in 1..Len(r.invoked) :
                  r.invoked[k].arg = state'["bg"]]_vars

\* popup is connected; a setState({a: 1}) made through its backgroundStore on
\* the owner's empty state has been committed in the owner, whose listener
\* l1 was given {a: 1}; the state of popup's own instance is still empty
C22_Witness ==
  /\ backgroundStore["popup"] = "connected"
  /\ lastResult.op = "commit"
  /\ lastResult.proc = "bg"
  /\ InvokedListeners(lastResult) = <<"l1">>
  /\ lastResult.invoked[1].arg = [k \in {"a"} |-> 1]
  /\ calls[1].pre = EmptyMap
  /\ state["bg"] = [k \in {"a"} |-> 1]
  /\ state["popup"] = EmptyMap
  /\ ~storeReady["popup"]

----------------------------------------------------------------------------
\* C24: a handshake to which the bridge has delivered the background page's
\* window resolves once initStore has succeeded there, whether the window
\* arrived before initStore (the reaction waits on the pending promise) or
\* after it; as long as initStore has not succeeded the handshake stays as
\* it is, and it is never rejected once the window has arrived.
C24_HandshakeEventuallyResolves ==
  /\ \A i \in 1..MaxConnects :
       (i \in Connects /\ connects[i].stage = "window" /\ storeReady["bg"])
         ~> (i \in Connects /\ connects[i].stage = "resolved")
  /\ [][\A i \in Connects :
          (connects[i].stage = "window") =>
            /\ connects'[i].stage \in {"window", "resolved"}
            /\ (~storeReady'["bg"]) => (connects'[i].stage = "window")]_vars

\* two handshakes have resolved: the window of one arrived while the
\* bumbleStore promise was pending, the window of the other after initStore
C24_Witness ==
  \E i, j \in Connects :
    /\ connects[i].stage = "resolved" /\ connects[i].waited
    /\ connects[j].stage = "resolved" /\ ~connects[j].waited
    /\ storeReady["bg"]

====
